---- MODULE Spec2Model ----
(***************************************************************************)
(* A model of tryhard: the walker that finds (and with -r rewrites) the    *)
(* statement pairs                                                         *)
(*                                                                         *)
(*     v1, ..., vn, <err> := f()                                           *)
(*     if <err> != nil { return ... zero values ..., <err> }               *)
(*                                                                         *)
(* in the functions of a parsed Go file (src/try.go), its counters         *)
(* (src/stats.go) and the expression comparison equal (equal.go, held in   *)
(* src/unnamed/part_000).                                                  *)
(*                                                                         *)
(* Syntax trees are records with a kind field named after the go/ast node  *)
(* type.  A nil interface value is the record [kind |-> "nil"]; a pointer  *)
(* field that is nil but is handed to equal as an ast.Expr (Field.Tag) is  *)
(* the record [kind |-> "BasicLit", isNil |-> TRUE]: Go wraps it into a    *)
(* non-nil interface whose dynamic type is *ast.BasicLit.                  *)
(***************************************************************************)
EXTENDS Integers, Sequences, FiniteSets, TLC

VARIABLES
    file,       \* the *ast.File being processed: its Decls, mutated in place
    src,        \* the tree as parsed when this run of the tool began
    rewrite,    \* the -r flag
    varname,    \* the -err flag ("" permits any name)
    di,         \* index into f.Decls of tryFile's range loop
    counts,     \* stats.go: counts[k]
    posLists,   \* stats.go: posLists[k]
    ifTrace,    \* history: position of every IfStmt reaching count(If, nil)
    modified,   \* processFile's local, set through tryFile's *modified
    pc,         \* "walk" | "done" | "panic"
    run,        \* which run of the tool over this file (1, 2)
    ex, ey,     \* arguments of a call of equal
    eres        \* its outcome: "none" before the call

vars == <<file, src, rewrite, varname, di, counts, posLists, ifTrace,
          modified, pc, run, ex, ey, eres>>

walkVars == <<file, src, rewrite, varname, di, counts, posLists, ifTrace,
              modified, pc, run>>

equalVars == <<ex, ey, eres>>

-----------------------------------------------------------------------------
(* go/token and go/ast values                                              *)

NoPos == 0

NilNode == [kind |-> "nil"]

NilTag == [kind |-> "BasicLit", isNil |-> TRUE]

NilFieldList == [kind |-> "FieldList", isNil |-> TRUE]

Ident(n) == [kind |-> "Ident", name |-> n, pos |-> NoPos]

BasicLit(k, v) ==
    [kind |-> "BasicLit", isNil |-> FALSE, tok |-> k, value |-> v, pos |-> NoPos]

CallExpr(f, a, e) ==
    [kind |-> "CallExpr", fun |-> f, args |-> a, ellipsis |-> e, pos |-> NoPos,
     lparen |-> NoPos, rparen |-> NoPos]

CompositeLit(t, e, inc) ==
    [kind |-> "CompositeLit", type |-> t, elts |-> e, incomplete |-> inc,
     pos |-> NoPos]

BinaryExpr(x, op, y) ==
    [kind |-> "BinaryExpr", x |-> x, op |-> op, y |-> y, pos |-> NoPos]

Field(n, t, g) == [names |-> n, type |-> t, tag |-> g]

FieldList(l) == [kind |-> "FieldList", isNil |-> FALSE, list |-> l]

IsNil(x) == x.kind = "nil"

\* v := <expression>; F(v): the value is computed once and then named
With(v, F(_)) == F(v)

-----------------------------------------------------------------------------
(* equal.go                                                                *)

\* a && b for the three outcomes "true", "false", "panic" of a Go boolean
\* expression that may dereference a nil pointer: b is evaluated only when
\* a is true.
AndThen(a, b) == IF a = "true" THEN b ELSE a

Bool3(b) == IF b THEN "true" ELSE "false"

RECURSIVE equal(_, _), equalLists(_, _), equalFieldsFrom(_, _, _)
RECURSIVE equalListsFrom(_, _, _)

equalListsFrom(x, y, i) ==
    IF i > Len(x) THEN "true"
    ELSE With(equal(x[i], y[i]), LAMBDA r :
              IF r = "true" THEN equalListsFrom(x, y, i + 1) ELSE r)

equalLists(x, y) ==
    IF Len(x) # Len(y) THEN "false" ELSE equalListsFrom(x, y, 1)

equalIdents(x, y) ==
    IF Len(x) # Len(y) THEN "false" ELSE equalListsFrom(x, y, 1)

equalFieldsFrom(x, y, i) ==
    IF i > Len(x) THEN "true"
    ELSE With(AndThen(equalIdents(x[i].names, y[i].names),
              AndThen(equal(x[i].type, y[i].type),
                      equal(x[i].tag, y[i].tag))), LAMBDA r :
              IF r = "true" THEN equalFieldsFrom(x, y, i + 1) ELSE r)

equalFields(x, y) ==
    IF x.isNil \/ y.isNil THEN Bool3(x.isNil /\ y.isNil)
    ELSE IF Len(x.list) # Len(y.list) THEN "false"
    ELSE equalFieldsFrom(x.list, y.list, 1)

equal(x, y) ==
    CASE x.kind = "nil" -> Bool3(y.kind = "nil")
      [] x.kind = "Ident" ->
            IF y.kind = "Ident" THEN Bool3(x.name = y.name) ELSE "false"
      [] x.kind = "Ellipsis" ->
            IF y.kind = "Ellipsis" THEN equal(x.elt, y.elt) ELSE "false"
      [] x.kind = "BasicLit" ->
            IF y.kind = "BasicLit"
            THEN \* x.Kind and y.Kind dereference the pointers
                 IF x.isNil \/ y.isNil THEN "panic"
                 ELSE Bool3(x.tok = y.tok /\ x.value = y.value)
            ELSE "false"
      [] x.kind = "FuncLit" -> "false"
      [] x.kind = "CompositeLit" ->
            IF y.kind = "CompositeLit"
            THEN AndThen(Bool3(~x.incomplete /\ ~y.incomplete),
                 AndThen(equal(x.type, y.type), equalLists(x.elts, y.elts)))
            ELSE "false"
      [] x.kind = "ParenExpr" ->
            IF y.kind = "ParenExpr" THEN equal(x.x, y.x) ELSE "false"
      [] x.kind = "SelectorExpr" ->
            IF y.kind = "SelectorExpr"
            THEN AndThen(equal(x.x, y.x), equal(x.sel, y.sel))
            ELSE "false"
      [] x.kind = "IndexExpr" ->
            IF y.kind = "IndexExpr"
            THEN AndThen(equal(x.x, y.x), equal(x.index, y.index))
            ELSE "false"
      [] x.kind = "SliceExpr" ->
            IF y.kind = "SliceExpr"
            THEN AndThen(equal(x.x, y.x),
                 AndThen(equal(x.low, y.low),
                 AndThen(equal(x.high, y.high),
                 AndThen(equal(x.max, y.max),
                         Bool3(x.slice3 = y.slice3)))))
            ELSE "false"
      [] x.kind = "TypeAssertExpr" ->
            IF y.kind = "TypeAssertExpr"
            THEN AndThen(equal(x.x, y.x), equal(x.type, y.type))
            ELSE "false"
      [] x.kind = "CallExpr" ->
            IF y.kind = "CallExpr"
            THEN AndThen(equal(x.fun, y.fun),
                 AndThen(equalLists(x.args, y.args),
                         Bool3(x.ellipsis = y.ellipsis)))
            ELSE "false"
      [] x.kind = "StarExpr" ->
            IF y.kind = "StarExpr" THEN equal(x.x, y.x) ELSE "false"
      [] x.kind = "UnaryExpr" ->
            IF y.kind = "UnaryExpr"
            THEN AndThen(Bool3(x.op = y.op), equal(x.x, y.x))
            ELSE "false"
      [] x.kind = "BinaryExpr" ->
            IF y.kind = "BinaryExpr"
            THEN AndThen(equal(x.x, y.x),
                 AndThen(Bool3(x.op = y.op), equal(x.y, y.y)))
            ELSE "false"
      [] x.kind = "KeyValueExpr" ->
            IF y.kind = "KeyValueExpr"
            THEN AndThen(equal(x.key, y.key), equal(x.value, y.value))
            ELSE "false"
      [] x.kind = "ArrayType" ->
            IF y.kind = "ArrayType"
            THEN AndThen(equal(x.len, y.len), equal(x.elt, y.elt))
            ELSE "false"
      [] x.kind = "StructType" ->
            IF y.kind = "StructType"
            THEN AndThen(Bool3(~x.incomplete /\ ~y.incomplete),
                         equalFields(x.fields, y.fields))
            ELSE "false"
      [] x.kind = "FuncType" ->
            IF y.kind = "FuncType"
            THEN AndThen(equalFields(x.params, y.params),
                         equalFields(x.results, y.results))
            ELSE "false"
      [] x.kind = "InterfaceType" ->
            IF y.kind = "InterfaceType"
            THEN AndThen(Bool3(~x.incomplete /\ ~y.incomplete),
                         equalFields(x.methods, y.methods))
            ELSE "false"
      [] x.kind = "MapType" ->
            IF y.kind = "MapType"
            THEN AndThen(equal(x.key, y.key), equal(x.value, y.value))
            ELSE "false"
      [] x.kind = "ChanType" ->
            IF y.kind = "ChanType"
            THEN AndThen(Bool3(x.dir = y.dir), equal(x.value, y.value))
            ELSE "false"
      [] OTHER -> "false"

-----------------------------------------------------------------------------
(* stats.go                                                                *)

SharedLast == "SharedLast"

Kinds == {"Func", "FuncError", "Stmt", "If", "IfErr", "TryCand", "NonErrName",
          "ReturnExpr", "SingleStmt", "ComplexBlock", "HasElse", SharedLast}

\* The walk's view of the memory it writes besides the tree: the global
\* counters, the funcInfo of the function being walked, and whether a
\* run-time panic is unwinding the stack.
\*   fi.sharedLast: Go's nil slice is [isNil |-> TRUE, list |-> <<>>].
NilSlice == [isNil |-> TRUE, list |-> <<>>]

EmptySlice == [isNil |-> FALSE, list |-> <<>>]

\* count that does not record the position of the node
count_noPos(w, k, n) == [w EXCEPT !.counts[k] = @ + 1]

count(w, k, n) ==
    [w EXCEPT !.counts[k] = @ + 1,
              !.posLists[k] = IF IsNil(n) THEN @ ELSE Append(@, n.pos)]

-----------------------------------------------------------------------------
(* try.go: the predicates                                                  *)

isName(x, name) == x.kind = "Ident" /\ x.name = name

isCall(x) == x.kind = "CallExpr"

Digits(base) ==
    CASE base = 2  -> {"0", "1"}
      [] base = 8  -> {"0", "1", "2", "3", "4", "5", "6", "7"}
      [] base = 10 -> {"0", "1", "2", "3", "4", "5", "6", "7", "8", "9"}
      [] OTHER     -> {"0", "1", "2", "3", "4", "5", "6", "7", "8", "9",
                       "a", "b", "c", "d", "e", "f",
                       "A", "B", "C", "D", "E", "F"}

Tail2(v) == SubSeq(v, 3, Len(v))

\* strconv.ParseInt(v, 0, 64) returns (0, nil): the base is taken from the
\* prefix of the literal's text, the digits are those of that base, and
\* all of them are 0.  v is the text as a sequence of characters.
ParseIntIsZero(v) ==
    LET pre == IF Len(v) >= 2 /\ v[1] = "0" THEN v[2] ELSE ""
        base == CASE pre \in {"x", "X"} -> 16
                  [] pre \in {"b", "B"} -> 2
                  [] pre \in {"o", "O"} -> 8
                  [] pre # "" -> 8
                  [] OTHER -> 10
        digits == CASE pre \in {"x", "X", "b", "B", "o", "O"} -> Tail2(v)
                    [] pre # "" -> Tail(v)
                    [] OTHER -> v
    IN  /\ Len(digits) > 0
        /\ \A i \in 1..Len(digits) : digits[i] \in Digits(base)
        /\ \A i \in 1..Len(digits) : digits[i] = "0"

\* strconv.ParseFloat(v, 64) returns (0, nil), for decimal literals: a
\* mantissa of digits with at most one point, an optional exponent, and
\* every mantissa digit 0.
ParseFloatIsZero(v) ==
    LET es == {i \in 1..Len(v) : v[i] \in {"e", "E"}}
        e == IF es = {} THEN Len(v) + 1
             ELSE CHOOSE i \in es : \A j \in es : i <= j
        mant == SubSeq(v, 1, e - 1)
        exp0 == SubSeq(v, e + 1, Len(v))
        exp == IF Len(exp0) > 0 /\ exp0[1] \in {"+", "-"} THEN Tail(exp0)
               ELSE exp0
        mdigits == {i \in 1..Len(mant) : mant[i] # "."}
    IN  /\ mdigits # {}
        /\ Cardinality({i \in 1..Len(mant) : mant[i] = "."}) <= 1
        /\ \A i \in mdigits : mant[i] \in Digits(10)
        /\ es # {} => /\ Len(exp) > 0
                      /\ \A i \in 1..Len(exp) : exp[i] \in Digits(10)
        /\ \A i \in mdigits : mant[i] = "0"

\* the characters " and ` of a literal's text
DQuote == "dquote"

BQuote == "bquote"

isZero(x) ==
    CASE x.kind = "Ident" -> x.name = "nil"
      [] x.kind = "BasicLit" ->
            LET v == x.value
            IN  IF Len(v) = 0 THEN FALSE
                ELSE CASE x.tok = "INT" -> ParseIntIsZero(v)
                       [] x.tok = "FLOAT" -> ParseFloatIsZero(v)
                       [] x.tok = "IMAG" ->
                             ParseFloatIsZero(SubSeq(v, 1, Len(v) - 1))
                       [] x.tok = "CHAR" -> v = <<"0">>
                       [] x.tok = "STRING" ->
                             v = <<DQuote, DQuote>> \/ v = <<BQuote, BQuote>>
                       [] OTHER -> FALSE
      [] x.kind = "CompositeLit" -> Len(x.elts) = 0
      [] OTHER -> FALSE

\* hasErrorResult that accepts a result of type error at any place
hasErrorResult_anyPlace(sig) ==
    /\ ~sig.results.isNil
    /\ \E i \in 1..Len(sig.results.list) :
          isName(sig.results.list[i].type, "error")

\* hasErrorResult(sig): sig.Results is a *ast.FieldList
hasErrorResult(sig) ==
    LET res == sig.results
    IN  IF res.isNil \/ Len(res.list) = 0 THEN FALSE
        ELSE isName(res.list[Len(res.list)].type, "error")

\* isReturn(b) = (ok, last); last is NilNode for Go's nil
isReturn(b) ==
    IF Len(b.list) # 1 THEN [ok |-> FALSE, last |-> NilNode]
    ELSE LET ret == b.list[1]
         IN  IF ret.kind # "ReturnStmt" THEN [ok |-> FALSE, last |-> NilNode]
             ELSE LET n == Len(ret.results)
                  IN  IF n > 0
                      THEN IF \E i \in 1..(n - 1) : ~isZero(ret.results[i])
                           THEN [ok |-> FALSE, last |-> NilNode]
                           ELSE [ok |-> TRUE, last |-> ret.results[n]]
                      ELSE [ok |-> TRUE, last |-> NilNode]

\* isErrTest(x, &errname) = (result, *errname afterwards)
isErrTest(x, errname) ==
    IF x.kind = "BinaryExpr" /\ x.op = "!=" /\ isName(x.y, "nil")
       /\ x.x.kind = "Ident"
    THEN IF errname = "" THEN [ok |-> TRUE, errname |-> x.x.name]
         ELSE [ok |-> x.x.name = errname, errname |-> errname]
    ELSE [ok |-> FALSE, errname |-> errname]

\* isErrAssign without the test of the assignment token
isErrAssign_anyTok(s, errname) ==
    IF s.kind # "AssignStmt" THEN FALSE
    ELSE /\ Len(s.lhs) > 0
         /\ isName(s.lhs[Len(s.lhs)], errname)
         /\ Len(s.rhs) = 1
         /\ isCall(s.rhs[1])

isErrAssign(s, errname) ==
    IF s.kind # "AssignStmt" \/ (s.tok # "=" /\ s.tok # ":=") THEN FALSE
    ELSE /\ Len(s.lhs) > 0
         /\ isName(s.lhs[Len(s.lhs)], errname)
         /\ Len(s.rhs) = 1
         /\ isCall(s.rhs[1])

isBlanks(list) ==
    \A i \in 1..Len(list) : list[i].kind = "Ident" /\ list[i].name = "_"

\* rewriteAssign that always keeps the assignment, also when no target or
\* only blank ones remain
rewriteAssign_keepAssign(s, end) ==
    LET pos == s.rhs[1].pos
        rhs0 == [kind |-> "CallExpr",
                 fun |-> [kind |-> "Ident", name |-> "try", pos |-> pos],
                 args |-> <<s.rhs[1]>>, ellipsis |-> NoPos,
                 pos |-> pos, lparen |-> pos, rparen |-> end]
    IN  [s EXCEPT !.lhs = SubSeq(s.lhs, 1, Len(s.lhs) - 1), !.rhs[1] = rhs0]

\* rewriteAssign that drops the last target and leaves the call as it is
rewriteAssign_noTry(s, end) ==
    IF isBlanks(SubSeq(s.lhs, 1, Len(s.lhs) - 1))
    THEN [kind |-> "ExprStmt", x |-> s.rhs[1], pos |-> s.rhs[1].pos]
    ELSE [s EXCEPT !.lhs = SubSeq(s.lhs, 1, Len(s.lhs) - 1)]

\* rewriteAssign(s, end): the statement it returns.  When the remaining
\* targets are not all blank, that statement is s itself, updated in place.
\* A failed type assertion or an index out of range is the result "panic".
rewriteAssign(s, end) ==
    IF s.kind # "AssignStmt" \/ Len(s.lhs) = 0 \/ Len(s.rhs) = 0
    THEN [kind |-> "panic"]
    ELSE LET lhs == SubSeq(s.lhs, 1, Len(s.lhs) - 1)
             rhs == s.rhs[1]
             pos == rhs.pos
             rhs0 == [kind |-> "CallExpr",
                      fun |-> [kind |-> "Ident", name |-> "try", pos |-> pos],
                      args |-> <<s.rhs[1]>>, ellipsis |-> NoPos,
                      pos |-> pos, lparen |-> pos, rparen |-> end]
         IN  IF isBlanks(lhs)
             THEN [kind |-> "ExprStmt", x |-> rhs0, pos |-> pos]
             ELSE [s EXCEPT !.lhs = lhs, !.rhs[1] = rhs0]

-----------------------------------------------------------------------------
(* try.go: the walk                                                        *)

Panic(w) == [w EXCEPT !.panicked = TRUE]

\* the else test that rejects without counting the rejection
elseCheck_noCount(s, ok, w) == [ok |-> ok /\ IsNil(s.else), w |-> w]

\* lines 156-162 of isTryHandler: the else block must be absent
elseCheck(s, ok, w) ==
    IF ~IsNil(s.else)
    THEN [ok |-> FALSE, w |-> count(w, "HasElse", s.else)]
    ELSE [ok |-> ok, w |-> w]

\* lastCheck that leaves fi.sharedLast as it is when last is absent or <err>
lastCheck_noInvalidate(s, last, errname, w) ==
    IF ~IsNil(last) /\ ~isName(last, errname)
    THEN With(count(w, "ReturnExpr", s.body), LAMBDA w1 :
              LET sl == w1.fi.sharedLast
              IN  IF sl.isNil THEN w1
                  ELSE IF Len(sl.list) = 0
                  THEN [w1 EXCEPT !.fi.sharedLast.list = Append(@, last)]
                  ELSE With(equal(last, sl.list[1]), LAMBDA e :
                       CASE e = "panic" -> Panic(w1)
                         [] e = "true" ->
                               [w1 EXCEPT !.fi.sharedLast.list = Append(@, last)]
                         [] OTHER -> [w1 EXCEPT !.fi.sharedLast = NilSlice]))
    ELSE w

\* lines 141-154 of isTryHandler: last must be <err>, if present
lastCheck(s, last, errname, w) ==
    IF ~IsNil(last) /\ ~isName(last, errname)
    THEN With(count(w, "ReturnExpr", s.body), LAMBDA w1 :
              LET sl == w1.fi.sharedLast
              IN  IF sl.isNil THEN w1
                  ELSE IF Len(sl.list) = 0
                  THEN [w1 EXCEPT !.fi.sharedLast.list = Append(@, last)]
                  ELSE With(equal(last, sl.list[1]), LAMBDA e :
                       CASE e = "panic" -> Panic(w1)
                         [] e = "true" ->
                               [w1 EXCEPT !.fi.sharedLast.list = Append(@, last)]
                         [] OTHER -> [w1 EXCEPT !.fi.sharedLast = NilSlice]))
    ELSE [w EXCEPT !.fi.sharedLast = NilSlice]

\* isTryHandler that looks at fi.sharedLast only if the handler is a return
isTryHandler_returnOnly(s, errname, w) ==
    With(isReturn(s.body), LAMBDA r :
    With(IF ~r.ok
         THEN count(w, IF Len(s.body.list) > 1 THEN "ComplexBlock"
                       ELSE "SingleStmt", s.body)
         ELSE lastCheck(s, r.last, errname, w), LAMBDA w2 :
         IF w2.panicked THEN [ok |-> FALSE, w |-> w2]
         ELSE elseCheck(s, r.ok /\ (IsNil(r.last) \/ isName(r.last, errname)),
                        w2)))

\* isTryHandler that stops at the first test that fails
isTryHandler_shortCircuit(s, errname, w) ==
    With(isReturn(s.body), LAMBDA r :
    With(IF ~r.ok
         THEN count(w, IF Len(s.body.list) > 1 THEN "ComplexBlock"
                       ELSE "SingleStmt", s.body)
         ELSE w, LAMBDA w1 :
    With(lastCheck(s, r.last, errname, w1), LAMBDA w2 :
         IF w2.panicked THEN [ok |-> FALSE, w |-> w2]
         ELSE IF r.ok /\ (IsNil(r.last) \/ isName(r.last, errname))
         THEN elseCheck(s, TRUE, w2)
         ELSE [ok |-> FALSE, w |-> w2])))

\* isTryHandler(s, errname) = its result and the memory it leaves
isTryHandler(s, errname, w) ==
    With(isReturn(s.body), LAMBDA r :
    With(IF ~r.ok
         THEN count(w, IF Len(s.body.list) > 1 THEN "ComplexBlock"
                       ELSE "SingleStmt", s.body)
         ELSE w, LAMBDA w1 :
    With(lastCheck(s, r.last, errname, w1), LAMBDA w2 :
         IF w2.panicked THEN [ok |-> FALSE, w |-> w2]
         ELSE elseCheck(s, r.ok /\ (IsNil(r.last) \/ isName(r.last, errname)),
                        w2))))

\* tryCand that, for a candidate in the initializer, stores the rewritten
\* assignment as the initializer and keeps the conditional in its slot
tryCand_keepIf(list, i, s, cand, at, errname, w) ==
    With(count(w, "TryCand", s), LAMBDA w1 :
    With(IF errname # "err" THEN count(w1, "NonErrName", s.cond) ELSE w1,
         LAMBDA w2 :
    With(rewriteAssign(cand, s.end), LAMBDA ra :
         IF ~rewrite THEN [list |-> list, s |-> s, dirty |-> FALSE, w |-> w2]
         ELSE IF at = i
         THEN [list |-> [list EXCEPT ![i] = [s EXCEPT !.init = ra]],
               s |-> [s EXCEPT !.init = ra], dirty |-> FALSE,
               w |-> [w2 EXCEPT !.fi.modified = TRUE]]
         ELSE [list |-> [list EXCEPT ![at] = ra, ![i] = NilNode],
               s |-> s, dirty |-> TRUE,
               w |-> [w2 EXCEPT !.fi.modified = TRUE]])))

\* lines 87-96 and 101-108 of tryBlock: a try candidate was found at
\* b.List[i]; cand is the assignment (p or s.Init), at is the slot the
\* rewritten assignment is stored in (i-1 or i).
tryCand(list, i, s, cand, at, errname, w) ==
    With(count(w, "TryCand", s), LAMBDA w1 :
    With(IF errname # "err" THEN count(w1, "NonErrName", s.cond) ELSE w1,
         LAMBDA w2 :
         IF ~rewrite THEN [list |-> list, s |-> s, dirty |-> FALSE, w |-> w2]
         ELSE With(rewriteAssign(cand, s.end), LAMBDA ra :
              IF ra.kind = "panic" \/ at < 1
              THEN [list |-> list, s |-> s, dirty |-> FALSE, w |-> Panic(w2)]
              ELSE IF at = i
              THEN [list |-> [list EXCEPT ![i] = ra],
                    s |-> IF ra.kind = "AssignStmt"
                          THEN [s EXCEPT !.init = ra] ELSE s,
                    dirty |-> FALSE,
                    w |-> [w2 EXCEPT !.fi.modified = TRUE]]
              ELSE [list |-> [list EXCEPT ![at] = ra, ![i] = NilNode],
                    s |-> s,
                    dirty |-> TRUE,
                    w |-> [w2 EXCEPT !.fi.modified = TRUE]])))

\* tryIf that takes the statement before an initializer-less conditional
\* as its candidate without testing it with isErrAssign
tryIf_anyPrev(list, i, s, p, w) ==
    With(isErrTest(s.cond, varname), LAMBDA t :
    With([list |-> list, s |-> s, dirty |-> FALSE, w |-> w], LAMBDA same :
         IF ~t.ok THEN same
         ELSE
    With(IsNil(s.init), LAMBDA c1 :
    With(IF c1 THEN isTryHandler(s, t.errname, count(w, "IfErr", NilNode))
         ELSE [ok |-> FALSE, w |-> count(w, "IfErr", NilNode)], LAMBDA h1 :
         IF h1.w.panicked THEN [same EXCEPT !.w = h1.w]
         ELSE IF c1 /\ h1.ok
         THEN tryCand(list, i, s, p, i - 1, t.errname, h1.w)
         ELSE
    With(isErrAssign(s.init, t.errname), LAMBDA c2 :
    With(IF c2 THEN isTryHandler(s, t.errname, h1.w)
         ELSE [ok |-> FALSE, w |-> h1.w], LAMBDA h2 :
         IF h2.w.panicked THEN [same EXCEPT !.w = h2.w]
         ELSE IF c2 /\ h2.ok
         THEN tryCand(list, i, s, s.init, i, t.errname, h2.w)
         ELSE [same EXCEPT !.w = h2.w]))))))

\* lines 74-109 of tryBlock: the IfStmt s = b.List[i], after its blocks
\* were walked
tryIf(list, i, s, p, w) ==
    With(isErrTest(s.cond, varname), LAMBDA t :
    With([list |-> list, s |-> s, dirty |-> FALSE, w |-> w], LAMBDA same :
         IF ~t.ok THEN same
         ELSE
    With(IsNil(s.init) /\ isErrAssign(p, t.errname), LAMBDA c1 :
    With(IF c1 THEN isTryHandler(s, t.errname, count(w, "IfErr", NilNode))
         ELSE [ok |-> FALSE, w |-> count(w, "IfErr", NilNode)], LAMBDA h1 :
         IF h1.w.panicked THEN [same EXCEPT !.w = h1.w]
         ELSE IF c1 /\ h1.ok
         THEN tryCand(list, i, s, p, i - 1, t.errname, h1.w)
         ELSE
    With(isErrAssign(s.init, t.errname), LAMBDA c2 :
    With(IF c2 THEN isTryHandler(s, t.errname, h1.w)
         ELSE [ok |-> FALSE, w |-> h1.w], LAMBDA h2 :
         IF h2.w.panicked THEN [same EXCEPT !.w = h2.w]
         ELSE IF c2 /\ h2.ok
         THEN tryCand(list, i, s, s.init, i, t.errname, h2.w)
         ELSE [same EXCEPT !.w = h2.w]))))))

BlockKinds == {"ForStmt", "RangeStmt", "SelectStmt", "SwitchStmt",
               "TypeSwitchStmt"}

RECURSIVE tryBlock(_, _), tryStmts(_, _, _, _, _)

\* lines 52-112 of tryBlock: the range loop from index i on; p is the
\* previous statement, dirty whether list holds nil entries
tryStmts(list, i, p, dirty, w) ==
    IF i > Len(list) \/ w.panicked
    THEN [list |-> list, dirty |-> dirty, w |-> w]
    ELSE With(list[i], LAMBDA s :
         With(count(w, "Stmt", NilNode), LAMBDA w0 :
         CASE s.kind = "BlockStmt" ->
                With(tryBlock(s, w0), LAMBDA r :
                     tryStmts([list EXCEPT ![i] = r.b], i + 1, r.b, dirty, r.w))
           [] s.kind \in BlockKinds ->
                With(tryBlock(s.body, w0), LAMBDA r :
                With([s EXCEPT !.body = r.b], LAMBDA s1 :
                     tryStmts([list EXCEPT ![i] = s1], i + 1, s1, dirty, r.w)))
           [] s.kind = "IfStmt" ->
                With(tryBlock(s.body, [count(w0, "If", NilNode)
                                         EXCEPT !.ifTrace = Append(@, s.pos)]),
                     LAMBDA rb :
                With(IF s.else.kind = "BlockStmt" /\ ~rb.w.panicked
                     THEN tryBlock(s.else, rb.w)
                     ELSE [b |-> s.else, w |-> rb.w], LAMBDA re :
                With([s EXCEPT !.body = rb.b, !.else = re.b], LAMBDA s1 :
                With([list EXCEPT ![i] = s1], LAMBDA l1 :
                     IF re.w.panicked
                     THEN [list |-> l1, dirty |-> dirty, w |-> re.w]
                     ELSE With(tryIf(l1, i, s1, p, re.w), LAMBDA r :
                               tryStmts(r.list, i + 1, r.s,
                                        dirty \/ r.dirty, r.w))))))
           [] OTHER -> tryStmts(list, i + 1, s, dirty, w0)))

\* the compaction that leaves the list as it is
compact_keepNil(list) == list

\* lines 114-123 of tryBlock: remove the nil entries
compact(list) == SelectSeq(list, LAMBDA s : ~IsNil(s))

\* tryBlock(b) = the block and the memory it leaves
tryBlock(b, w) ==
    With(tryStmts(b.list, 1, NilNode, FALSE, w), LAMBDA r :
         IF r.w.panicked THEN [b |-> [b EXCEPT !.list = r.list], w |-> r.w]
         ELSE IF r.dirty
         THEN [b |-> [b EXCEPT !.list = compact(r.list)], w |-> r.w]
         ELSE [b |-> [b EXCEPT !.list = r.list], w |-> r.w])

RECURSIVE countShared(_, _, _)

\* lines 34-42 of tryFile
countShared(w, list, i) ==
    IF i > Len(list) THEN w
    ELSE countShared(count(w, SharedLast, list[i]), list, i + 1)

\* tryDecl that also walks the function literal a variable is declared with
tryDecl_intoFuncLit(d, w) ==
    IF d.kind # "FuncDecl" /\ d.value.kind # "FuncLit" THEN [d |-> d, w |-> w]
    ELSE With(IF d.kind = "FuncDecl" THEN d.body ELSE d.value.body, LAMBDA b :
         With(count(w, "Func", NilNode), LAMBDA w1 :
         IF d.kind = "FuncDecl" => (hasErrorResult(d.type) /\ ~IsNil(d.body))
         THEN With(tryBlock(b, [count(w1, "FuncError", NilNode)
                                  EXCEPT !.fi = [modified |-> FALSE,
                                                 sharedLast |-> EmptySlice]]),
                   LAMBDA r :
                   [d |-> IF d.kind = "FuncDecl" THEN [d EXCEPT !.body = r.b]
                          ELSE [d EXCEPT !.value.body = r.b],
                    w |-> IF r.w.fi.modified /\ ~r.w.panicked
                          THEN [r.w EXCEPT !.modified = TRUE] ELSE r.w])
         ELSE [d |-> d, w |-> w1]))

\* lines 23-44 of tryFile: one iteration of the loop over f.Decls, for the
\* declaration d
tryDecl(d, w) ==
    IF d.kind # "FuncDecl" THEN [d |-> d, w |-> w]
    ELSE With(count(w, "Func", NilNode), LAMBDA w1 :
         IF hasErrorResult(d.type) /\ ~IsNil(d.body)
         THEN With(tryBlock(d.body,
                            [count(w1, "FuncError", NilNode)
                               EXCEPT !.fi = [modified |-> FALSE,
                                              sharedLast |-> EmptySlice]]),
                   LAMBDA r :
              With(IF r.w.fi.modified
                   THEN [r.w EXCEPT !.modified = TRUE] ELSE r.w, LAMBDA w3 :
                   IF r.w.panicked
                   THEN [d |-> [d EXCEPT !.body = r.b], w |-> r.w]
                   ELSE [d |-> [d EXCEPT !.body = r.b],
                         w |-> IF Len(w3.fi.sharedLast.list) > 1
                               THEN countShared(w3, w3.fi.sharedLast.list, 1)
                               ELSE w3]))
         ELSE [d |-> d, w |-> w1])

-----------------------------------------------------------------------------
(* The trees parser.ParseFile hands to tryFile.  Statements are built      *)
(* without positions and ParseFile numbers the nodes in source order.      *)

AssignStmt(lhs, tok, rhs) ==
    [kind |-> "AssignStmt", lhs |-> lhs, tok |-> tok, rhs |-> rhs,
     pos |-> NoPos, end |-> NoPos]

IfStmt(init, cond, body, else) ==
    [kind |-> "IfStmt", init |-> init, cond |-> cond, body |-> body,
     else |-> else, pos |-> NoPos, end |-> NoPos]

ReturnStmt(results) ==
    [kind |-> "ReturnStmt", results |-> results, pos |-> NoPos, end |-> NoPos]

ExprStmt(x) == [kind |-> "ExprStmt", x |-> x, pos |-> NoPos]

BlockStmt(list) ==
    [kind |-> "BlockStmt", list |-> list, pos |-> NoPos, end |-> NoPos]

\* for, range, select, switch and type switch statements: their Body
BodyStmt(kind, body) ==
    [kind |-> kind, body |-> body, pos |-> NoPos, end |-> NoPos]

\* case and comm clauses: their Body is a list of statements
Clause(kind, body) ==
    [kind |-> kind, body |-> body, pos |-> NoPos, end |-> NoPos]

FuncLit(body) == [kind |-> "FuncLit", body |-> body, pos |-> NoPos]

FuncType(params, results) ==
    [kind |-> "FuncType", params |-> params, results |-> results,
     pos |-> NoPos]

FuncDecl(type, body) == [kind |-> "FuncDecl", type |-> type, body |-> body]

\* var f = <value>
GenDecl(value) == [kind |-> "GenDecl", value |-> value]

RECURSIVE LabelExpr(_, _), LabelExprs(_, _, _), LabelStmt(_, _)
RECURSIVE LabelStmts(_, _, _)

LabelExprs(list, i, n) ==
    IF i > Len(list) THEN [x |-> list, n |-> n]
    ELSE With(LabelExpr(list[i], n), LAMBDA r :
              LabelExprs([list EXCEPT ![i] = r.x], i + 1, r.n))

LabelStmts(list, i, n) ==
    IF i > Len(list) THEN [x |-> list, n |-> n]
    ELSE With(LabelStmt(list[i], n), LAMBDA r :
              LabelStmts([list EXCEPT ![i] = r.x], i + 1, r.n))

LabelExpr(e, n) ==
    CASE IsNil(e) -> [x |-> e, n |-> n]
      [] e.kind = "FuncLit" ->
            With(LabelStmt(e.body, n + 1), LAMBDA r :
                 [x |-> [e EXCEPT !.pos = n, !.body = r.x], n |-> r.n])
      [] e.kind = "CallExpr" ->
            With(LabelExpr(e.fun, n), LAMBDA f :
            With(LabelExprs(e.args, 1, f.n + 1), LAMBDA a :
            With(e.ellipsis # NoPos, LAMBDA hasDots :
                 [x |-> [e EXCEPT !.pos = n, !.fun = f.x, !.lparen = f.n,
                                  !.args = a.x,
                                  !.ellipsis = IF hasDots THEN a.n ELSE NoPos,
                                  !.rparen = IF hasDots THEN a.n + 1 ELSE a.n],
                  n |-> IF hasDots THEN a.n + 2 ELSE a.n + 1])))
      [] OTHER -> [x |-> [e EXCEPT !.pos = n], n |-> n + 1]

LabelStmt(s, n) ==
    CASE IsNil(s) -> [x |-> s, n |-> n]
      [] s.kind = "AssignStmt" ->
            With(LabelExprs(s.lhs, 1, n), LAMBDA l :
            With(LabelExprs(s.rhs, 1, l.n + 1), LAMBDA r :
                 [x |-> [s EXCEPT !.pos = n, !.lhs = l.x, !.rhs = r.x,
                                  !.end = r.n],
                  n |-> r.n]))
      [] s.kind = "ReturnStmt" ->
            With(LabelExprs(s.results, 1, n + 1), LAMBDA r :
                 [x |-> [s EXCEPT !.pos = n, !.results = r.x, !.end = r.n],
                  n |-> r.n])
      [] s.kind = "ExprStmt" ->
            With(LabelExpr(s.x, n), LAMBDA r :
                 [x |-> [s EXCEPT !.pos = n, !.x = r.x], n |-> r.n])
      [] s.kind = "IfStmt" ->
            With(LabelStmt(s.init, n + 1), LAMBDA i :
            With(LabelExpr(s.cond, i.n), LAMBDA c :
            With(LabelStmt(s.body, c.n), LAMBDA b :
            With(LabelStmt(s.else, b.n), LAMBDA e :
                 [x |-> [s EXCEPT !.pos = n, !.init = i.x, !.cond = c.x,
                                  !.body = b.x, !.else = e.x, !.end = e.n],
                  n |-> e.n + 1]))))
      [] s.kind = "BlockStmt" ->
            With(LabelStmts(s.list, 1, n + 1), LAMBDA r :
                 [x |-> [s EXCEPT !.pos = n, !.list = r.x, !.end = r.n],
                  n |-> r.n + 1])
      [] s.kind \in BlockKinds ->
            With(LabelStmt(s.body, n + 1), LAMBDA r :
                 [x |-> [s EXCEPT !.pos = n, !.body = r.x, !.end = r.n],
                  n |-> r.n + 1])
      [] s.kind = "LabeledStmt" ->
            With(LabelStmt(s.stmt, n + 1), LAMBDA r :
                 [x |-> [s EXCEPT !.pos = n, !.stmt = r.x], n |-> r.n])
      [] s.kind \in {"CaseClause", "CommClause"} ->
            With(LabelStmts(s.body, 1, n + 1), LAMBDA r :
                 [x |-> [s EXCEPT !.pos = n, !.body = r.x, !.end = r.n],
                  n |-> r.n + 1])
      [] OTHER -> [x |-> [s EXCEPT !.pos = n], n |-> n + 1]

RECURSIVE LabelDecls(_, _, _)

LabelDecls(decls, i, n) ==
    IF i > Len(decls) THEN decls
    ELSE LET d == decls[i]
         IN  IF d.kind = "FuncDecl"
             THEN With(LabelStmt(d.body, n + 1), LAMBDA r :
                  LabelDecls([decls EXCEPT ![i].body = r.x], i + 1, r.n))
             ELSE With(LabelExpr(d.value, n + 1), LAMBDA r :
                  LabelDecls([decls EXCEPT ![i].value = r.x], i + 1, r.n))

\* parser.ParseFile: the declarations with every node at its own position
ParseFile(decls) == LabelDecls(decls, 1, 1)

-----------------------------------------------------------------------------
(* The inputs: the bounded set of files the walk is checked on             *)

MaxLhs == 2        \* left-hand targets of an assignment

MaxHandlers == 3   \* error checks in a row in one function

MaxStmts == 3      \* statements in a row in one function body

MaxRuns == 2       \* runs of the tool over one file

Err == Ident("err")

V == Ident("v")

NilId == Ident("nil")

Call0(f) == CallExpr(Ident(f), <<>>, NoPos)

Call1(f, a) == CallExpr(Ident(f), <<Ident(a)>>, NoPos)

\* wrap(errs...): the labelling gives the "..." its position
CallDots(f, a) == CallExpr(Ident(f), <<Ident(a)>>, 1)

\* struct{ error }{err}
StructLit ==
    CompositeLit([kind |-> "StructType",
                  fields |-> FieldList(<<Field(<<>>, Ident("error"), NilTag)>>),
                  incomplete |-> FALSE, pos |-> NoPos],
                 <<Err>>, FALSE)

Zero == BasicLit("INT", <<"0">>)

One == BasicLit("INT", <<"1">>)

ErrTest(n) == BinaryExpr(Ident(n), "!=", NilId)

Ret(results) == BlockStmt(<<ReturnStmt(results)>>)

Log == ExprStmt(Call0("log"))

Lhs == UNION {[1..n -> {Err, V, Ident("_")}] : n \in 1..MaxLhs}

Assigns ==
    {AssignStmt(l, tok, r) :
        l \in Lhs, tok \in {"=", ":=", "+="},
        r \in {<<Call0("f")>>, <<V>>, <<Call0("f"), Call0("g")>>}}

VErr == AssignStmt(<<V, Err>>, "=", <<Call0("f")>>)

VErrDef == AssignStmt(<<V, Err>>, ":=", <<Call0("f")>>)

ErrDef == AssignStmt(<<Err>>, ":=", <<Call0("f")>>)

VMyErr == AssignStmt(<<V, Ident("myErr")>>, ":=", <<Call0("f")>>)

\* v, err = f(); if err != nil { return 0, err }
Pair == <<VErr, IfStmt(NilNode, ErrTest("err"), Ret(<<Zero, Err>>), NilNode)>>

\* if v, err := f(); err != nil { return 0, err }
InitPair == <<IfStmt(VErrDef, ErrTest("err"), Ret(<<Zero, Err>>), NilNode)>>

Handlers ==
    {Ret(<<Err>>), Ret(<<Zero, Err>>), Ret(<<>>), Ret(<<One, Err>>),
     Ret(<<Call1("wrap", "err")>>), Ret(<<Zero, Call1("wrap", "err")>>),
     Ret(<<Ident("myErr")>>), BlockStmt(<<Log>>),
     BlockStmt(<<Log, ReturnStmt(<<Err>>)>>), BlockStmt(<<>>),
     BlockStmt(Pair)}

Conds ==
    {ErrTest("err"), ErrTest("myErr"), BinaryExpr(Err, "==", NilId),
     BinaryExpr(Err, "!=", V), Err}

Elses ==
    {NilNode, BlockStmt(<<Log>>),
     IfStmt(NilNode, ErrTest("err"), Ret(<<Err>>), NilNode)}

Inits == {NilNode, VErrDef, Log}

\* the statements before the conditional: none, or one
Prevs == {<<>>, <<VErr>>, <<ErrDef>>, <<VMyErr>>, <<Log>>}

\* Family 1: every assignment, before or in a conditional that tests err or v
AssignBodies ==
    {<<a, IfStmt(NilNode, ErrTest(n), Ret(<<Ident(n)>>), NilNode)>> :
        a \in Assigns, n \in {"err", "v"}}
    \cup
    {<<IfStmt(a, ErrTest(n), Ret(<<Ident(n)>>), NilNode)>> :
        a \in Assigns, n \in {"err", "v"}}

\* Family 2: every conditional after a few assignments
IfBodies ==
    {p \o <<IfStmt(i, c, h, e)>> :
        p \in Prevs, i \in Inits, c \in Conds, h \in Handlers, e \in Elses}

\* Family 3: up to MaxHandlers error checks in a row
Checks ==
    {IfStmt(ErrDef, ErrTest("err"), Ret(<<x>>), NilNode) :
        x \in {Err, Call1("wrap", "err"), Call1("otherWrap", "err"),
               CallDots("wrap", "errs"), StructLit}}
    \cup {IfStmt(ErrDef, ErrTest("err"), BlockStmt(<<Log>>), NilNode),
          IfStmt(NilNode, ErrTest("err"), BlockStmt(<<Log>>), NilNode),
          IfStmt(ErrDef, ErrTest("err"), Ret(<<StructLit>>), BlockStmt(<<Log>>)),
          IfStmt(NilNode, ErrTest("err"), Ret(<<Call1("wrap", "err")>>),
                 NilNode)}

CheckBodies == UNION {[1..n -> Checks] : n \in 1..MaxHandlers}

\* Family 4: up to MaxStmts statements in a row
Stmts ==
    {VErrDef, AssignStmt(<<Err, Err>>, "=", <<Call0("f")>>), Log,
     AssignStmt(<<Ident("_"), Err>>, ":=", <<Call0("f")>>),
     IfStmt(NilNode, ErrTest("err"), Ret(<<Err>>), NilNode),
     IfStmt(NilNode, ErrTest("v"), Ret(<<V>>), NilNode),
     IfStmt(NilNode, ErrTest("err"), Ret(<<Err>>), BlockStmt(<<Log>>)),
     IfStmt(VErrDef, ErrTest("err"), Ret(<<Err>>), NilNode)}

StmtBodies == UNION {[1..n -> Stmts] : n \in 1..MaxStmts}

\* Family 5: a pair inside the statements that hold statements
In(kind, list) ==
    CASE kind = "BlockStmt" -> BlockStmt(list)
      [] kind \in {"ForStmt", "RangeStmt"} -> BodyStmt(kind, BlockStmt(list))
      [] kind = "SelectStmt" ->
            BodyStmt(kind, BlockStmt(<<Clause("CommClause", list)>>))
      [] kind \in {"SwitchStmt", "TypeSwitchStmt"} ->
            BodyStmt(kind, BlockStmt(<<Clause("CaseClause", list)>>))
      [] kind = "then" -> IfStmt(NilNode, Ident("ok"), BlockStmt(list), NilNode)
      [] kind = "else" ->
            IfStmt(NilNode, Ident("ok"), BlockStmt(<<Log>>), BlockStmt(list))
      [] kind = "else if" ->
            IfStmt(NilNode, Ident("ok"), BlockStmt(<<Log>>),
                   IfStmt(NilNode, Ident("ok"), BlockStmt(list), NilNode))
      [] kind = "labeled" ->
            [kind |-> "LabeledStmt", stmt |-> BlockStmt(list), pos |-> NoPos]
      [] kind = "closure" ->
            AssignStmt(<<Ident("report")>>, ":=", <<FuncLit(BlockStmt(list))>>)
      [] OTHER -> ExprStmt(CallExpr(FuncLit(BlockStmt(list)), <<>>, NoPos))

Contexts ==
    {"BlockStmt", "ForStmt", "RangeStmt", "SelectStmt", "SwitchStmt",
     "TypeSwitchStmt", "then", "else", "else if", "labeled", "closure", "go"}

NestedBodies ==
    {<<Log, In(k, q), Log>> : k \in Contexts, q \in {Pair, InitPair}}
    \cup
    {Pair \o <<In(k, q)>> : k \in Contexts, q \in {Pair, InitPair}}
    \cup
    {<<In(k1, <<In(k2, q), Log>>)>> :
        k1 \in Contexts, k2 \in Contexts, q \in {Pair, InitPair}}

ErrorSig == FuncType(FieldList(<<>>),
                     FieldList(<<Field(<<>>, Ident("int"), NilTag),
                                 Field(<<>>, Ident("error"), NilTag)>>))

Walked(list) == FuncDecl(ErrorSig, BlockStmt(list))

\* the declarations tryFile only counts, or skips
Sigs ==
    {FuncType(FieldList(<<>>), r) :
        r \in {NilFieldList, FieldList(<<>>),
               FieldList(<<Field(<<>>, Ident("int"), NilTag)>>),
               FieldList(<<Field(<<>>, Ident("error"), NilTag),
                           Field(<<>>, Ident("int"), NilTag)>>),
               FieldList(<<Field(<<>>,
                                 [kind |-> "StarExpr", x |-> Ident("error"),
                                  pos |-> NoPos], NilTag)>>)}}

Skipped ==
    {FuncDecl(sig, BlockStmt(q)) : sig \in Sigs, q \in {Pair, InitPair}}
    \cup {FuncDecl(ErrorSig, NilNode),
          GenDecl(FuncLit(BlockStmt(Pair)))}

SmallDecls ==
    Skipped \cup
    {Walked(q) :
        q \in {Pair, InitPair,
               <<AssignStmt(<<Ident("_"), Err>>, ":=", <<Call0("f")>>),
                 IfStmt(NilNode, ErrTest("err"), Ret(<<Err>>), NilNode)>>,
               <<IfStmt(ErrDef, ErrTest("err"), Ret(<<Call1("wrap", "err")>>),
                        NilNode),
                 IfStmt(ErrDef, ErrTest("err"), Ret(<<Call1("wrap", "err")>>),
                        NilNode)>>}}

Files ==
    {<<Walked(q)>> :
        q \in AssignBodies \cup IfBodies \cup CheckBodies \cup StmtBodies
              \cup NestedBodies}
    \cup {<<d>> : d \in Skipped}
    \cup {<<d1, d2>> : d1 \in SmallDecls, d2 \in SmallDecls}

-----------------------------------------------------------------------------
(* The tool                                                                *)

ZeroCounts == [k \in Kinds |-> 0]

NoPositions == [k \in Kinds |-> <<>>]

\* the memory a walk works on, from the state
Memory ==
    [counts |-> counts, posLists |-> posLists, ifTrace |-> ifTrace,
     modified |-> modified, panicked |-> FALSE,
     fi |-> [modified |-> FALSE, sharedLast |-> EmptySlice]]

Init ==
    /\ \E decls \in Files : file = ParseFile(decls)
    /\ src = file
    /\ rewrite \in BOOLEAN
    /\ varname \in {"err", ""}
    /\ di = 1
    /\ counts = ZeroCounts
    /\ posLists = NoPositions
    /\ ifTrace = <<>>
    /\ modified = FALSE
    /\ pc = "walk"
    /\ run = 1
    /\ ex = NilNode /\ ey = NilNode /\ eres = "none"

\* tryFile: one iteration of the loop over f.Decls
TryDecl ==
    /\ pc = "walk"
    /\ di <= Len(file)
    /\ \E r \in {tryDecl(file[di], Memory)} :
           /\ file' = [file EXCEPT ![di] = r.d]
           /\ counts' = r.w.counts
           /\ posLists' = r.w.posLists
           /\ ifTrace' = r.w.ifTrace
           /\ modified' = r.w.modified
           /\ pc' = IF r.w.panicked THEN "panic" ELSE "walk"
           /\ di' = IF r.w.panicked THEN di ELSE di + 1
    /\ UNCHANGED <<src, rewrite, varname, run, ex, ey, eres>>

\* tryFile returns to processFile, which writes the file if it was modified
Return ==
    /\ pc = "walk"
    /\ di > Len(file)
    /\ pc' = "done"
    /\ UNCHANGED <<file, src, rewrite, varname, di, counts, posLists, ifTrace,
                   modified, run, ex, ey, eres>>

\* The tool is run again, with the same flags, over the file it rewrote: the
\* printed file is parsed afresh and the counters start at zero.
Rerun ==
    /\ pc = "done"
    /\ modified /\ rewrite
    /\ run < MaxRuns
    /\ file' = ParseFile(file)
    /\ src' = file'
    /\ di' = 1
    /\ counts' = ZeroCounts
    /\ posLists' = NoPositions
    /\ ifTrace' = <<>>
    /\ modified' = FALSE
    /\ pc' = "walk"
    /\ run' = run + 1
    /\ UNCHANGED <<rewrite, varname, ex, ey, eres>>

Next == TryDecl \/ Return \/ Rerun

Spec == Init /\ [][Next]_vars

-----------------------------------------------------------------------------
(* equal called on its own: the expressions it is checked on               *)

\* an expression node of the given kind with the given fields
Node(kind, fields) == [kind |-> kind, pos |-> NoPos] @@ fields

X == Ident("x")

Y == Ident("y")

Atoms == {X, Y, Zero}

\* `json:"k"`
Tag == BasicLit("STRING", <<BQuote, "k", BQuote>>)

\* field lists: (), (x int `k`), and (x int) whose field has no tag
FieldLists ==
    {FieldList(<<>>),
     FieldList(<<Field(<<X>>, Ident("int"), Tag)>>),
     FieldList(<<Field(<<X>>, Ident("int"), NilTag)>>)}

\* expressions built from the node kinds equal has a case for, function
\* literals left out, none of them marked incomplete
SupportedExprs ==
    Atoms \cup {NilNode}
    \cup {Node("Ellipsis", [elt |-> a]) : a \in {NilNode, X}}
    \cup {CompositeLit(ty, el, FALSE) :
             ty \in {NilNode, X}, el \in {<<>>, <<Zero>>}}
    \cup {Node("ParenExpr", [x |-> a]) : a \in Atoms}
    \cup {Node("SelectorExpr", [x |-> X, sel |-> a]) : a \in {X, Y}}
    \cup {Node("IndexExpr", [x |-> X, index |-> a]) : a \in {Y, Zero}}
    \cup {Node("SliceExpr", [x |-> X, low |-> a, high |-> b, max |-> NilNode,
                             slice3 |-> FALSE]) :
             a \in {NilNode, Zero}, b \in {NilNode, Zero}}
    \cup {Node("TypeAssertExpr", [x |-> X, type |-> a]) : a \in {NilNode, Y}}
    \cup {CallExpr(X, a, e) : a \in {<<>>, <<Y>>}, e \in {NoPos, 1}}
    \cup {Node("StarExpr", [x |-> a]) : a \in {X, Y}}
    \cup {Node("UnaryExpr", [op |-> o, x |-> X]) : o \in {"-", "!"}}
    \cup {BinaryExpr(X, o, a) : o \in {"+", "!="}, a \in {Y, Zero}}
    \cup {Node("KeyValueExpr", [key |-> X, value |-> a]) : a \in {Y, Zero}}
    \cup {Node("ArrayType", [len |-> a, elt |-> X]) : a \in {NilNode, Zero}}
    \cup {Node("StructType", [fields |-> l, incomplete |-> FALSE]) :
             l \in FieldLists}
    \cup {FuncType(l, r) :
             l \in FieldLists, r \in {NilFieldList, FieldList(<<>>)}}
    \cup {Node("InterfaceType", [methods |-> l, incomplete |-> FALSE]) :
             l \in FieldLists}
    \cup {Node("MapType", [key |-> X, value |-> a]) : a \in {X, Y}}
    \cup {Node("ChanType", [dir |-> d, value |-> X]) : d \in {1, 2}}
    \cup {Node("ParenExpr", [x |-> StructLit]), StructLit}

\* and those equal does not compare: function literals, nodes of a kind it
\* has no case for, nodes marked incomplete
Exprs ==
    SupportedExprs
    \cup {FuncLit(BlockStmt(<<>>)), Node("BadExpr", [from |-> NoPos]),
          Node("ParenExpr", [x |-> FuncLit(BlockStmt(<<>>))]),
          CompositeLit(X, <<>>, TRUE),
          Node("StructType", [fields |-> FieldList(<<>>), incomplete |-> TRUE])}

InitEqual ==
    /\ ex \in Exprs
    /\ ey \in Exprs
    /\ eres = "none"
    /\ file = <<>>
    /\ src = <<>>
    /\ rewrite = FALSE
    /\ varname = "err"
    /\ di = 1
    /\ counts = ZeroCounts
    /\ posLists = NoPositions
    /\ ifTrace = <<>>
    /\ modified = FALSE
    /\ pc = "equal"
    /\ run = 1

\* the call equal(ex, ey)
Equal ==
    /\ pc = "equal"
    /\ eres = "none"
    /\ eres' = equal(ex, ey)
    /\ UNCHANGED <<file, src, rewrite, varname, di, counts, posLists, ifTrace,
                   modified, pc, run, ex, ey>>

SpecEqual == InitEqual /\ [][Equal]_vars

-----------------------------------------------------------------------------
(* Reading a tree: the conditionals and where they stand                   *)

RECURSIVE SitesOfList(_), SitesOfStmt(_), SitesOfExpr(_)

\* Every conditional of a statement list and of the statements nested in
\* it, with the statement before it in its list (p) and whether it stands
\* inside a function literal, a case or comm clause or an else-if.
SitesOfList(list) ==
    {[s |-> list[i], p |-> IF i = 1 THEN NilNode ELSE list[i - 1],
      via |-> "block"] : i \in {j \in 1..Len(list) : list[j].kind = "IfStmt"}}
    \cup UNION {SitesOfStmt(list[i]) : i \in 1..Len(list)}

Via(sites, how) == {[x EXCEPT !.via = how] : x \in sites}

SitesOfExpr(e) ==
    CASE e.kind = "FuncLit" -> Via(SitesOfList(e.body.list), "closure")
      [] e.kind = "CallExpr" ->
            SitesOfExpr(e.fun)
            \cup UNION {SitesOfExpr(e.args[i]) : i \in 1..Len(e.args)}
      [] OTHER -> {}

SitesOfStmt(s) ==
    CASE s.kind = "BlockStmt" -> SitesOfList(s.list)
      [] s.kind \in BlockKinds -> SitesOfList(s.body.list)
      [] s.kind \in {"CaseClause", "CommClause"} ->
            Via(SitesOfList(s.body), "clause")
      [] s.kind = "LabeledStmt" -> Via(SitesOfStmt(s.stmt), "labeled")
      [] s.kind = "IfStmt" ->
            SitesOfList(s.body.list)
            \cup (IF s.else.kind = "BlockStmt" THEN SitesOfList(s.else.list)
                  ELSE IF s.else.kind = "IfStmt"
                  THEN Via({[s |-> s.else, p |-> NilNode, via |-> "block"]}
                           \cup SitesOfStmt(s.else), "else if")
                  ELSE {})
            \cup (IF IsNil(s.init) THEN {} ELSE SitesOfStmt(s.init))
      [] s.kind = "AssignStmt" ->
            UNION {SitesOfExpr(s.rhs[i]) : i \in 1..Len(s.rhs)}
      [] s.kind = "ExprStmt" -> SitesOfExpr(s.x)
      [] OTHER -> {}

SitesOfDecl(d) ==
    IF d.kind = "FuncDecl"
    THEN IF IsNil(d.body) THEN {} ELSE SitesOfList(d.body.list)
    ELSE SitesOfExpr(d.value)

SitesOf(f) == UNION {SitesOfDecl(f[i]) : i \in 1..Len(f)}

RECURSIVE BlocksOfStmt(_), BlocksOfExpr(_), BlocksOfList(_)

\* Every statement list of a tree, with the position of the block (or of
\* the clause) that holds it.
BlocksOfList(list) == UNION {BlocksOfStmt(list[i]) : i \in 1..Len(list)}

BlocksOfExpr(e) ==
    CASE e.kind = "FuncLit" -> BlocksOfStmt(e.body)
      [] e.kind = "CallExpr" ->
            BlocksOfExpr(e.fun) \cup BlocksOfList(e.args)
      [] OTHER -> {}

BlocksOfStmt(s) ==
    CASE s.kind = "BlockStmt" ->
            {[pos |-> s.pos, list |-> s.list]} \cup BlocksOfList(s.list)
      [] s.kind \in BlockKinds -> BlocksOfStmt(s.body)
      [] s.kind \in {"CaseClause", "CommClause"} ->
            {[pos |-> s.pos, list |-> s.body]} \cup BlocksOfList(s.body)
      [] s.kind = "LabeledStmt" -> BlocksOfStmt(s.stmt)
      [] s.kind = "IfStmt" ->
            BlocksOfStmt(s.init) \cup BlocksOfStmt(s.body)
            \cup BlocksOfStmt(s.else)
      [] s.kind = "AssignStmt" -> BlocksOfList(s.rhs)
      [] s.kind = "ExprStmt" -> BlocksOfExpr(s.x)
      [] OTHER -> {}

BlocksOfDecl(d) ==
    IF d.kind = "FuncDecl" THEN BlocksOfStmt(d.body) ELSE BlocksOfExpr(d.value)

BlocksOf(f) == UNION {BlocksOfDecl(f[i]) : i \in 1..Len(f)}

\* how often position q stands in the list l
Times(l, q) == Cardinality({i \in 1..Len(l) : l[i] = q})

Range(l) == {l[i] : i \in 1..Len(l)}

-----------------------------------------------------------------------------
(* C1                                                                      *)

\* the name the condition of s binds as errname
BoundName(s) == IF varname = "" THEN s.cond.x.name ELSE varname

\* (1) the condition is <ident> != nil, the identifier being the configured
\* name or, when none is configured, any name
Cond1(s) ==
    /\ s.cond.kind = "BinaryExpr"
    /\ s.cond.op = "!="
    /\ s.cond.x.kind = "Ident"
    /\ s.cond.y.kind = "Ident" /\ s.cond.y.name = "nil"
    /\ varname # "" => s.cond.x.name = varname

\* (2) the body is exactly one return statement
Cond2(s) == Len(s.body.list) = 1 /\ s.body.list[1].kind = "ReturnStmt"

\* (3) the return is naked, or all results but the last are zero values and
\* the last is the identifier errname
Cond3(s) ==
    LET res == s.body.list[1].results
    IN  \/ res = <<>>
        \/ /\ \A i \in 1..(Len(res) - 1) : isZero(res[i])
           /\ res[Len(res)].kind = "Ident"
           /\ res[Len(res)].name = BoundName(s)

\* (4) there is no else branch
Cond4(s) == IsNil(s.else)

\* (5) the candidate statement is an = or := assignment with at least one
\* target, the last one named errname, and one call on its right
Cond5(site) ==
    LET c == IF IsNil(site.s.init) THEN site.p ELSE site.s.init
    IN  /\ c.kind = "AssignStmt"
        /\ c.tok \in {"=", ":="}
        /\ Len(c.lhs) >= 1
        /\ c.lhs[Len(c.lhs)].kind = "Ident"
        /\ c.lhs[Len(c.lhs)].name = BoundName(site.s)
        /\ Len(c.rhs) = 1
        /\ c.rhs[1].kind = "CallExpr"

FiveHold(site) ==
    Cond1(site.s) /\ Cond2(site.s) /\ Cond3(site.s) /\ Cond4(site.s)
    /\ Cond5(site)

\* the conditionals of the parsed file that tryBlock has visited
Visited == {site \in SitesOf(src) : site.s.pos \in Range(ifTrace)}

-----------------------------------------------------------------------------
(* C2, C3                                                                  *)

\* the slots of the list of block b (of the parsed file) that hold a try
\* candidate in separate-statement form: an init-less conditional that was
\* visited, of which the five conditions hold
SepCands(b) ==
    {i \in 2..Len(b.list) :
        /\ b.list[i].kind = "IfStmt"
        /\ IsNil(b.list[i].init)
        /\ b.list[i].pos \in Range(ifTrace)
        /\ FiveHold([s |-> b.list[i], p |-> b.list[i - 1]])}

\* those that hold a try candidate whose assignment is the initializer
InitCands(b) ==
    {i \in 1..Len(b.list) :
        /\ b.list[i].kind = "IfStmt"
        /\ ~IsNil(b.list[i].init)
        /\ b.list[i].pos \in Range(ifTrace)
        /\ FiveHold([s |-> b.list[i], p |-> NilNode])}

\* try(<call>), spanning from the call to the end of the conditional s
TryOf(call, s) ==
    [kind |-> "CallExpr", fun |-> [Ident("try") EXCEPT !.pos = call.pos],
     args |-> <<call>>, ellipsis |-> NoPos, pos |-> call.pos,
     lparen |-> call.pos, rparen |-> s.end]

\* what the assignment a of a try candidate s is to become
Collapsed(a, s) ==
    LET rest == SubSeq(a.lhs, 1, Len(a.lhs) - 1)
    IN  IF rest = <<>> \/ \A i \in 1..Len(rest) : rest[i].name = "_"
        THEN [kind |-> "ExprStmt", x |-> TryOf(a.rhs[1], s),
              pos |-> a.rhs[1].pos]
        ELSE [kind |-> "AssignStmt", lhs |-> rest, tok |-> a.tok,
              rhs |-> <<TryOf(a.rhs[1], s)>>, pos |-> a.pos, end |-> a.end]

\* the slot in the rewritten list that slot i of block b's list moved to
SlotAfter(b, i) == i - Cardinality({j \in SepCands(b) : j <= i})

\* the block of the walked file that stands where b stood
After(b) == CHOOSE nb \in BlocksOf(file) : nb.pos = b.pos

\* C2: in rewrite mode the assignment and the conditional of a try candidate
\* in separate-statement form collapse to one statement in the slot of the
\* assignment: try(<call>) alone when no target or only blank ones remain,
\* else the assignment with its remaining targets and try(<call>) on the
\* right.
C2_SeparateFormCollapses ==
    (pc = "done" /\ rewrite) =>
        \A b \in BlocksOf(src) :
            SepCands(b) # {} =>
                /\ \E nb \in BlocksOf(file) : nb.pos = b.pos
                /\ Len(After(b).list) = Len(b.list) - Cardinality(SepCands(b))
                /\ \A i \in SepCands(b) :
                      /\ After(b).list[SlotAfter(b, i - 1)]
                            = Collapsed(b.list[i - 1], b.list[i])
                      /\ \A k \in 1..Len(After(b).list) :
                            After(b).list[k].pos # b.list[i].pos

\* a rewriting walk has collapsed a pair to an assignment and another, in
\* the same file or block, to a bare try(<call>)
C2_Witness ==
    /\ pc = "done" /\ rewrite /\ run = 1
    /\ \E b \in BlocksOf(src) : \E i \in SepCands(b) :
          Collapsed(b.list[i - 1], b.list[i]).kind = "AssignStmt"
    /\ \E b \in BlocksOf(src) : \E i \in SepCands(b) :
          Collapsed(b.list[i - 1], b.list[i]).kind = "ExprStmt"

\* C3 as stated: after the rewrite of a try candidate whose assignment is
\* the initializer, the slot still holds the conditional, its condition
\* and body unchanged and its initializer rewritten.
C3_ConditionalKept ==
    (pc = "done" /\ rewrite) =>
        \A b \in BlocksOf(src) :
            \A i \in InitCands(b) :
                LET s == b.list[i]
                    n == After(b).list[SlotAfter(b, i)]
                IN  /\ Len(After(b).list)
                          = Len(b.list) - Cardinality(SepCands(b))
                    /\ n.kind = "IfStmt"
                    /\ n.pos = s.pos
                    /\ n.cond = s.cond
                    /\ n.body = s.body
                    /\ n.init = Collapsed(s.init, s)

\* C3 as amended: the slot holds the rewritten initializer itself, the
\* conditional is gone from the block, and the length of the block is
\* not changed by this rewrite.
C3_InitializerReplacesConditional ==
    (pc = "done" /\ rewrite) =>
        \A b \in BlocksOf(src) :
            \A i \in InitCands(b) :
                /\ \E nb \in BlocksOf(file) : nb.pos = b.pos
                /\ Len(After(b).list) = Len(b.list) - Cardinality(SepCands(b))
                /\ After(b).list[SlotAfter(b, i)]
                      = Collapsed(b.list[i].init, b.list[i])
                /\ \A k \in 1..Len(After(b).list) :
                      After(b).list[k].kind # "IfStmt"
                      \/ After(b).list[k].pos # b.list[i].pos

\* if v, myErr := f(); myErr != nil { return myErr }-like: a rewriting walk
\* in any-name mode has replaced a conditional by its rewritten initializer
C3_Witness ==
    /\ pc = "done" /\ rewrite /\ run = 1 /\ varname = ""
    /\ \E b \in BlocksOf(src) : \E i \in InitCands(b) :
          /\ Collapsed(b.list[i].init, b.list[i]).kind = "AssignStmt"
          /\ After(b).list[SlotAfter(b, i)].kind = "AssignStmt"

-----------------------------------------------------------------------------
(* C4                                                                      *)

\* how often the else branch of the conditional s was counted as HasElse
ElseCounted(s) == Times(posLists["HasElse"], s.else.pos)

\* C4 as stated: after a walk, every visited conditional that tests
\* <err> != nil and has an else branch was counted under HasElse, whatever
\* precedes it and whatever its initializer is.
C4_EveryElseCounted ==
    pc = "done" =>
        \A site \in Visited :
            (Cond1(site.s) /\ ~IsNil(site.s.else)) => ElseCounted(site.s) = 1

\* C4 as amended: the else branch of a visited conditional is counted under
\* HasElse at most once, and only if the conditional tests <err> != nil and
\* its candidate statement (the statement before it, or its initializer) is
\* an assignment of a call whose last target is <err>; unless the walk was
\* aborted, it is counted for every such conditional.
C4_ElseCountedIffErrAssign ==
    /\ \A site \in Visited :
          ~IsNil(site.s.else) =>
              /\ ElseCounted(site.s) <= 1
              /\ ElseCounted(site.s) = 1 => (Cond1(site.s) /\ Cond5(site))
              /\ (pc # "panic" /\ Cond1(site.s) /\ Cond5(site))
                    => ElseCounted(site.s) = 1
    /\ \A q \in Range(posLists["HasElse"]) :
          \E site \in Visited : ~IsNil(site.s.else) /\ site.s.else.pos = q
    /\ counts["HasElse"] = Len(posLists["HasElse"])

\* a finished walk that met two error tests with an else branch: one after
\* an assignment to <err>, counted, and one after another statement, not
\* counted
C4_Witness ==
    /\ pc = "done"
    /\ \E a \in Visited, b \in Visited :
          /\ Cond1(a.s) /\ ~IsNil(a.s.else) /\ Cond5(a)
          /\ ElseCounted(a.s) = 1
          /\ Cond1(b.s) /\ ~IsNil(b.s.else) /\ ~Cond5(b)
          /\ ElseCounted(b.s) = 0

-----------------------------------------------------------------------------
(* C5                                                                      *)

RECURSIVE Shape(_)

\* the expression e without its positions: two expressions are structurally
\* equal if they have the same shape
Shape(e) ==
    CASE e.kind = "CallExpr" ->
            [kind |-> "CallExpr", fun |-> Shape(e.fun),
             args |-> [i \in 1..Len(e.args) |-> Shape(e.args[i])],
             dots |-> e.ellipsis # NoPos]
      [] e.kind \in {"Ident", "BasicLit", "CompositeLit"} ->
            [e EXCEPT !.pos = NoPos]
      [] OTHER -> e

\* the last result of the single return of the handler of s
Trailing(s) ==
    s.body.list[1].results[Len(s.body.list[1].results)]

\* an error check with its assignment whose handler is a single return of
\* zero values and a trailing expression that is not the error variable
WrapCheck(site) ==
    /\ site.via = "block"
    /\ Cond1(site.s) /\ Cond2(site.s) /\ Cond5(site)
    /\ Len(site.s.body.list[1].results) > 0
    /\ \A i \in 1..(Len(site.s.body.list[1].results) - 1) :
          isZero(site.s.body.list[1].results[i])
    /\ ~isName(Trailing(site.s), BoundName(site.s))

\* what C5 says of the function d, of which tryFile emitted n SharedLast
\* entries: when all conditionals of d are such error checks, two of them
\* with structurally equal trailing expressions give two entries, and three
\* of them, two equal and one different, give none
SharedAsStated(d, n) ==
    LET sites == SitesOfDecl(d)
    IN  (/\ d.kind = "FuncDecl"
         /\ ~IsNil(d.body)
         /\ hasErrorResult(d.type)
         /\ \A site \in sites : WrapCheck(site))
        => /\ (/\ Cardinality(sites) = 2
               /\ \A a \in sites, b \in sites :
                     Shape(Trailing(a.s)) = Shape(Trailing(b.s)))
              => n = 2
           /\ (/\ Cardinality(sites) = 3
               /\ \E a \in sites, b \in sites, c \in sites :
                     /\ a # b
                     /\ Shape(Trailing(a.s)) = Shape(Trailing(b.s))
                     /\ Shape(Trailing(a.s)) # Shape(Trailing(c.s)))
              => n = 0

\* C5: every iteration of tryFile over a declaration emits the SharedLast
\* entries the claim states, two for two structurally equal trailing
\* expressions and none when a third, different one is present.
C5_SharedTrailing ==
    [][(pc = "walk" /\ di <= Len(file) /\ (di' = di + 1 \/ pc' = "panic"))
          => SharedAsStated(file[di],
                            counts'[SharedLast] - counts[SharedLast])]_vars

\* whether the expression e holds a call with "..." or a struct type
RECURSIVE HasDotsOrStruct(_)

HasDotsOrStruct(e) ==
    CASE e.kind = "CallExpr" ->
            \/ e.ellipsis # NoPos
            \/ HasDotsOrStruct(e.fun)
            \/ \E i \in 1..Len(e.args) : HasDotsOrStruct(e.args[i])
      [] e.kind = "CompositeLit" -> e.type.kind = "StructType"
      [] OTHER -> FALSE

\* C5 holds of the functions whose trailing expressions hold neither a call
\* with "..." nor a struct type.
C5_SharedTrailingPlain ==
    [][(/\ pc = "walk" /\ di <= Len(file)
        /\ (di' = di + 1 \/ pc' = "panic")
        /\ \A site \in SitesOfDecl(file[di]) :
              WrapCheck(site) => ~HasDotsOrStruct(Trailing(site.s)))
          => SharedAsStated(file[di],
                            counts'[SharedLast] - counts[SharedLast])]_vars

\* a walk has emitted two SharedLast entries for a function with two such
\* error checks
C5_Witness ==
    /\ pc = "done" /\ Len(src) = 1 /\ counts[SharedLast] = 2
    /\ Cardinality(SitesOfDecl(src[1])) = 2
    /\ \A site \in SitesOfDecl(src[1]) : WrapCheck(site)

-----------------------------------------------------------------------------
(* C6                                                                      *)

RECURSIVE Lits(_)

\* the outermost function literals of the node n
Lits(n) ==
    CASE n.kind = "FuncLit" -> {n}
      [] n.kind = "CallExpr" ->
            Lits(n.fun) \cup UNION {Lits(n.args[i]) : i \in 1..Len(n.args)}
      [] n.kind = "BlockStmt" ->
            UNION {Lits(n.list[i]) : i \in 1..Len(n.list)}
      [] n.kind \in BlockKinds -> Lits(n.body)
      [] n.kind \in {"CaseClause", "CommClause"} ->
            UNION {Lits(n.body[i]) : i \in 1..Len(n.body)}
      [] n.kind = "LabeledStmt" -> Lits(n.stmt)
      [] n.kind = "IfStmt" -> Lits(n.init) \cup Lits(n.body) \cup Lits(n.else)
      [] n.kind = "AssignStmt" ->
            UNION {Lits(n.rhs[i]) : i \in 1..Len(n.rhs)}
      [] n.kind = "ExprStmt" -> Lits(n.x)
      [] n.kind = "ReturnStmt" ->
            UNION {Lits(n.results[i]) : i \in 1..Len(n.results)}
      [] OTHER -> {}

LitsOfFile(f) ==
    UNION {IF f[i].kind = "FuncDecl" THEN Lits(f[i].body) ELSE Lits(f[i].value) :
              i \in 1..Len(f)}

\* position q lies in the body of a function literal of the parsed file
InClosure(q) ==
    \E e \in LitsOfFile(src) : e.pos < q /\ q <= e.body.end

RECURSIVE StmtsOutside(_, _)

\* the number of statements from list[i] on and of the blocks nested in
\* them, function literals left out
StmtsOutside(list, i) ==
    IF i > Len(list) THEN 0
    ELSE 1 + StmtsOutside(list, i + 1)
         + (CASE list[i].kind = "BlockStmt" -> StmtsOutside(list[i].list, 1)
              [] list[i].kind \in BlockKinds ->
                    StmtsOutside(list[i].body.list, 1)
              [] list[i].kind = "IfStmt" ->
                    StmtsOutside(list[i].body.list, 1)
                    + (IF list[i].else.kind = "BlockStmt"
                       THEN StmtsOutside(list[i].else.list, 1) ELSE 0)
              [] OTHER -> 0)

RECURSIVE StmtsOfFile(_, _)

\* the same for the functions of the file f, from f[i] on, that are walked
StmtsOfFile(f, i) ==
    IF i > Len(f) THEN 0
    ELSE StmtsOfFile(f, i + 1)
         + (IF f[i].kind = "FuncDecl" /\ ~IsNil(f[i].body)
               /\ hasErrorResult(f[i].type)
            THEN StmtsOutside(f[i].body.list, 1) ELSE 0)

\* C6: no position inside a function literal is visited or recorded, the
\* statement, conditional, error-test and try-candidate counters count what
\* lies outside the function literals only, and the function literals of
\* the file stay as they were parsed.
C6_ClosuresIgnored ==
    /\ \A q \in Range(ifTrace) \cup UNION {Range(posLists[k]) : k \in Kinds} :
          ~InClosure(q)
    /\ counts["If"] = Len(ifTrace)
    /\ counts["IfErr"] = Cardinality({site \in Visited : Cond1(site.s)})
    /\ counts["TryCand"] = Len(posLists["TryCand"])
    /\ pc = "done" => counts["Stmt"] = StmtsOfFile(src, 1)
    /\ LitsOfFile(file) = LitsOfFile(src)

\* a rewriting walk of a function has finished, found a try candidate and
\* passed a function literal that holds a perfect match
C6_Witness ==
    /\ pc = "done" /\ rewrite /\ run = 1 /\ Len(src) = 1
    /\ src[1].kind = "FuncDecl"
    /\ counts["Stmt"] = 4 /\ counts["TryCand"] = 1
    /\ \E site \in SitesOf(src) : InClosure(site.s.pos) /\ FiveHold(site)
    /\ \E site \in Visited : FiveHold(site)

-----------------------------------------------------------------------------
(* C7                                                                      *)

\* the function declaration d has no body, or no results, or its last
\* result is not of the type named error
NoErrorFunc(d) ==
    /\ d.kind = "FuncDecl"
    /\ \/ IsNil(d.body)
       \/ d.type.results.isNil
       \/ d.type.results.list = <<>>
       \/ LET last == d.type.results.list[Len(d.type.results.list)].type
          IN  last.kind # "Ident" \/ last.name # "error"

\* C7: tryFile's iteration over such a declaration adds one to the Func
\* counter and changes nothing else: no other counter, no position, not the
\* tree, not the modified flag.
C7_SkippedOnlyCounted ==
    [][(pc = "walk" /\ di <= Len(file) /\ NoErrorFunc(file[di]))
          => /\ counts' = [counts EXCEPT !["Func"] = @ + 1]
             /\ posLists' = posLists
             /\ ifTrace' = ifTrace
             /\ file' = file
             /\ modified' = modified
             /\ pc' = "walk"]_vars

\* tryFile has passed a function without error result whose body holds a
\* perfect match, in rewrite mode, and has counted nothing but the function
C7_Witness ==
    /\ pc = "walk" /\ rewrite /\ di = 2
    /\ NoErrorFunc(file[1])
    /\ \E site \in SitesOfDecl(file[1]) : FiveHold(site)
    /\ counts = [ZeroCounts EXCEPT !["Func"] = 1]

-----------------------------------------------------------------------------
(* C8                                                                      *)

\* an assignment of the form ... = try(<call>), as rewriteAssign leaves it
IsTryStmt(p) ==
    /\ p.kind = "AssignStmt"
    /\ Len(p.rhs) = 1
    /\ p.rhs[1].kind = "CallExpr"
    /\ isName(p.rhs[1].fun, "try")

\* C8 as stated: the second walk counts no try candidate that a rewritten
\* statement takes part in, and does not modify the tree.
C8_SecondWalkIdle ==
    run >= 2 =>
        /\ \A site \in Visited :
              Times(posLists["TryCand"], site.s.pos) = 1
                  => ~(IsTryStmt(site.p) \/ IsTryStmt(site.s.init))
        /\ ~modified
        /\ file = src

\* C8 as amended: the second walk counts a try candidate only at a
\* conditional without initializer that follows an assignment the first
\* walk rewrote to ... = try(<call>); when it counts none, it does not
\* modify the tree.
C8_SecondWalkOnlyAfterTry ==
    run >= 2 =>
        /\ \A site \in Visited :
              Times(posLists["TryCand"], site.s.pos) = 1
                  => (IsNil(site.s.init) /\ IsTryStmt(site.p))
        /\ counts["TryCand"] = 0 => (~modified /\ file = src)
        /\ modified => counts["TryCand"] > 0

\* a second walk has finished and counted a conditional that follows a
\* rewritten assignment
C8_Witness ==
    /\ run = 2 /\ pc = "done" /\ modified
    /\ \E site \in Visited :
          /\ Times(posLists["TryCand"], site.s.pos) = 1
          /\ IsTryStmt(site.p)

-----------------------------------------------------------------------------
(* C9                                                                      *)

\* C9: equal(x, x) is true for every expression x built from the kinds
\* equal has a case for, and equal(x, y) is false when the kinds of x and y
\* differ.
C9_ReflexiveOnSupported ==
    eres # "none" =>
        /\ (ex = ey /\ ex \in SupportedExprs) => eres = "true"
        /\ ex.kind # ey.kind => eres = "false"

\* the expression e holds a field without a tag
RECURSIVE HasUntagged(_)

HasUntagged(e) ==
    CASE e.kind = "StructType" ->
            \E i \in 1..Len(e.fields.list) : e.fields.list[i].tag.isNil
      [] e.kind = "InterfaceType" ->
            \E i \in 1..Len(e.methods.list) : e.methods.list[i].tag.isNil
      [] e.kind = "FuncType" ->
            \E i \in 1..Len(e.params.list) : e.params.list[i].tag.isNil
      [] e.kind = "CompositeLit" -> HasUntagged(e.type)
      [] e.kind = "ParenExpr" -> HasUntagged(e.x)
      [] OTHER -> FALSE

\* C9 holds of the expressions without such a field; on those with one,
\* equal(x, x) does not return.
C9_ReflexiveWithoutUntagged ==
    eres # "none" =>
        /\ (ex = ey /\ ex \in SupportedExprs)
              => eres = IF HasUntagged(ex) THEN "panic" ELSE "true"
        /\ ex.kind # ey.kind => eres = "false"

-----------------------------------------------------------------------------
(* C10                                                                     *)

\* C10: the handler of every conditional counted as a try candidate is one
\* return statement with at least one result, all results but the last
\* zero values and the last one the variable <err>.
C10_CandidateReturnsErr ==
    \A site \in Visited :
        Times(posLists["TryCand"], site.s.pos) = 1
            => /\ Cond2(site.s)
               /\ Len(site.s.body.list[1].results) >= 1
               /\ \A i \in 1..(Len(site.s.body.list[1].results) - 1) :
                     isZero(site.s.body.list[1].results[i])
               /\ isName(Trailing(site.s), BoundName(site.s))

-----------------------------------------------------------------------------
(* C11                                                                     *)

\* the visited conditionals of the parsed file that isTryHandler examines:
\* error tests whose candidate statement assigns <err>
Examined == {site \in Visited : Cond1(site.s) /\ Cond5(site)}

\* the handler of s is one return statement, all its results but the last
\* zero values
ReturnsZeros(s) ==
    /\ Cond2(s)
    /\ \A i \in 1..(Len(s.body.list[1].results) - 1) :
          isZero(s.body.list[1].results[i])

\* those whose handler, as parsed, has more than one statement, and those
\* whose handler has none or one statement that is no such return
ComplexAsParsed == {site \in Examined : Len(site.s.body.list) > 1}

SingleAsParsed ==
    {site \in Examined :
        Len(site.s.body.list) <= 1 /\ ~ReturnsZeros(site.s)}

\* the flag and the tree after tryFile has returned
FlagAndTree ==
    /\ modified <=> (rewrite /\ counts["TryCand"] > 0)
    /\ ~rewrite => file = src

\* the counters that do not depend on the statements of a handler
PlainCounters ==
    /\ counts["Stmt"] = StmtsOfFile(src, 1)
    /\ counts["If"] = Cardinality(Visited)
    /\ counts["IfErr"] = Cardinality({site \in Visited : Cond1(site.s)})
    /\ counts["TryCand"] = Cardinality({site \in Visited : FiveHold(site)})
    /\ counts["NonErrName"]
          = Cardinality({site \in Visited :
                            FiveHold(site) /\ BoundName(site.s) # "err"})
    /\ counts["HasElse"]
          = Cardinality({site \in Examined : ~IsNil(site.s.else)})
    /\ counts["ReturnExpr"]
          = Cardinality({site \in Examined :
                            /\ ReturnsZeros(site.s)
                            /\ Len(site.s.body.list[1].results) > 0
                            /\ ~isName(Trailing(site.s), BoundName(site.s))})

\* C11: after tryFile has returned, modified is true exactly if rewrite
\* mode is on and a try candidate was counted, list mode leaves the tree as
\* parsed, and every counter has the value the parsed tree determines,
\* the same in both modes.
C11_FlagTreeAndCounters ==
    pc = "done" =>
        /\ FlagAndTree
        /\ PlainCounters
        /\ counts["ComplexBlock"] = Cardinality(ComplexAsParsed)
        /\ counts["SingleStmt"] = Cardinality(SingleAsParsed)

\* C11 holds but for the two handler buckets in rewrite mode: these are
\* as the parsed tree determines in list mode, and in rewrite mode only
\* their sum is.
C11_FlagTreeAndCountersButHandlers ==
    pc = "done" =>
        /\ FlagAndTree
        /\ PlainCounters
        /\ counts["ComplexBlock"] + counts["SingleStmt"]
              = Cardinality(ComplexAsParsed) + Cardinality(SingleAsParsed)
        /\ ~rewrite =>
              /\ counts["ComplexBlock"] = Cardinality(ComplexAsParsed)
              /\ counts["SingleStmt"] = Cardinality(SingleAsParsed)

-----------------------------------------------------------------------------
(* C12                                                                     *)

\* how often the handler of the conditional s was counted under one of the
\* three handler buckets
HandlerCounted(s) ==
    Times(posLists["SingleStmt"], s.body.pos)
    + Times(posLists["ComplexBlock"], s.body.pos)
    + Times(posLists["ReturnExpr"], s.body.pos)

\* C12 as stated: a visited conditional is counted under at most one of the
\* rejection buckets SingleStmt, ComplexBlock, ReturnExpr and HasElse.
C12_OneRejectionBucket ==
    \A site \in Visited :
        HandlerCounted(site.s)
        + (IF IsNil(site.s.else) THEN 0 ELSE ElseCounted(site.s)) <= 1

\* C12 as amended: a visited conditional is counted under at most one of
\* the handler buckets SingleStmt, ComplexBlock and ReturnExpr, and, unless
\* the walk was aborted, an examined conditional with an else branch is
\* counted under HasElse as well, whatever its handler was counted under.
C12_HandlerBucketAndElse ==
    \A site \in Visited :
        /\ HandlerCounted(site.s) <= 1
        /\ (pc # "panic" /\ site \in Examined /\ ~IsNil(site.s.else))
              => ElseCounted(site.s) = 1
        /\ (pc # "panic" /\ site \in Examined)
              => HandlerCounted(site.s)
                    = IF site \in ComplexAsParsed \cup SingleAsParsed
                         \/ (/\ ReturnsZeros(site.s)
                             /\ Len(site.s.body.list[1].results) > 0
                             /\ ~isName(Trailing(site.s), BoundName(site.s)))
                      THEN 1 ELSE 0

\* a finished walk has counted a conditional under a handler bucket and
\* under HasElse
C12_Witness ==
    /\ pc = "done"
    /\ \E site \in Visited :
          /\ ~IsNil(site.s.else)
          /\ HandlerCounted(site.s) = 1
          /\ ElseCounted(site.s) = 1

-----------------------------------------------------------------------------
(* C13                                                                     *)

\* the handler of the examined conditional of site returns no trailing
\* expression other than <err>: a try candidate, or a conditional rejected
\* for another reason
Invalidates(site) ==
    /\ Cond1(site.s) /\ Cond5(site)
    /\ ~(/\ ReturnsZeros(site.s)
         /\ Len(site.s.body.list[1].results) > 0
         /\ ~isName(Trailing(site.s), BoundName(site.s)))

\* C13: tryFile's iteration over a function in which a try candidate, or
\* another conditional that invalidates fi.sharedLast, was visited emits no
\* SharedLast entry, whatever the other handlers of the function are and
\* wherever they stand.
C13_InvalidationPermanent ==
    [][(/\ pc = "walk" /\ di <= Len(file)
        /\ \E site \in SitesOfDecl(file[di]) :
              /\ site.s.pos \in Range(ifTrace')
              /\ FiveHold(site) \/ Invalidates(site))
          => /\ counts'[SharedLast] = counts[SharedLast]
             /\ posLists'[SharedLast] = posLists[SharedLast]]_vars

\* a walk has found a try candidate in a function with two error checks
\* that return structurally equal trailing expressions, one of them after
\* the candidate, and has emitted no SharedLast entry
C13_Witness ==
    /\ pc = "done" /\ Len(src) = 1 /\ counts[SharedLast] = 0
    /\ \E c \in Visited, a \in Visited, b \in Visited :
          /\ FiveHold(c)
          /\ WrapCheck(a) /\ WrapCheck(b) /\ a # b
          /\ Shape(Trailing(a.s)) = Shape(Trailing(b.s))
          /\ ~HasDotsOrStruct(Trailing(a.s))
          /\ c.s.pos < b.s.pos

-----------------------------------------------------------------------------
(* C14                                                                     *)

\* the conditionals of the function d are two error checks that return
\* structurally equal trailing expressions (without "..." and struct
\* types) and, besides, only error tests whose handler is not one return
\* statement
TwoSharedAndComplex(d) ==
    LET sites == SitesOfDecl(d)
        wraps == {site \in sites : WrapCheck(site)}
    IN  /\ d.kind = "FuncDecl" /\ ~IsNil(d.body) /\ hasErrorResult(d.type)
        /\ Cardinality(wraps) = 2
        /\ \A a \in wraps, b \in wraps :
              /\ Shape(Trailing(a.s)) = Shape(Trailing(b.s))
              /\ ~HasDotsOrStruct(Trailing(a.s))
        /\ \A site \in sites \ wraps :
              site.via = "block" /\ Cond1(site.s) /\ ~Cond2(site.s)

\* C14 as stated: the error tests whose handler is not one return statement
\* leave fi.sharedLast as it is, so that the function emits the two
\* SharedLast entries.
C14_ComplexHandlerLeaves ==
    [][(pc = "walk" /\ di <= Len(file) /\ TwoSharedAndComplex(file[di]))
          => counts'[SharedLast] = counts[SharedLast] + 2]_vars

\* C14 as amended: such an error test leaves fi.sharedLast as it is only if
\* its candidate statement is no assignment to <err>, so that isTryHandler
\* is not called; one that isTryHandler examines invalidates fi.sharedLast
\* and the function emits no SharedLast entry.
C14_ComplexHandlerInvalidates ==
    [][(pc = "walk" /\ di <= Len(file) /\ TwoSharedAndComplex(file[di]))
          => counts'[SharedLast]
                = IF \E site \in SitesOfDecl(file[di]) :
                        ~WrapCheck(site) /\ Cond5(site)
                  THEN counts[SharedLast]
                  ELSE counts[SharedLast] + 2]_vars

\* a walk has passed two error checks that return equal trailing
\* expressions and an examined error test with a handler that is not a
\* return, and has emitted no SharedLast entry
C14_Witness ==
    /\ pc = "done" /\ Len(src) = 1 /\ counts[SharedLast] = 0
    /\ TwoSharedAndComplex(src[1])
    /\ \E site \in Visited : ~WrapCheck(site) /\ Cond5(site)

-----------------------------------------------------------------------------
(* C15                                                                     *)

\* slot i of the list of block b holds a statement that is part of no
\* matched pair: no candidate conditional and not the assignment before one
Unmatched(b, i) ==
    /\ i \notin SepCands(b) \cup InitCands(b)
    /\ (i + 1) \notin SepCands(b)

\* y is the statement x: the same node, and but for the blocks it holds,
\* which are walked on their own, with the same content
SameStmt(x, y) ==
    /\ x.kind = y.kind
    /\ x.pos = y.pos
    /\ x.kind = "IfStmt" => (x.init = y.init /\ x.cond = y.cond)
    /\ x.kind \notin (BlockKinds \cup {"BlockStmt", "IfStmt"}) => x = y

\* C15: after a rewriting walk that was not aborted, every block that is
\* still in the tree has a list without nil entries, shorter than as parsed
\* by the number of its candidates in separate-statement form, in which
\* every statement that is part of no matched pair stands unchanged and in
\* the order of the parsed list.
C15_CompactedAndOrdered ==
    (rewrite /\ pc # "panic") =>
        \A b \in BlocksOf(src) :
            (\E nb \in BlocksOf(file) : nb.pos = b.pos) =>
                /\ \A k \in 1..Len(After(b).list) : ~IsNil(After(b).list[k])
                /\ Len(After(b).list) = Len(b.list) - Cardinality(SepCands(b))
                /\ \A i \in 1..Len(b.list) :
                      Unmatched(b, i) =>
                          SameStmt(b.list[i], After(b).list[SlotAfter(b, i)])

\* a rewriting walk has removed a conditional from a block that holds a
\* statement of no matched pair after it, which has moved up
C15_Witness ==
    /\ pc = "done" /\ rewrite /\ run = 1
    /\ \E b \in BlocksOf(src) :
          \E i \in SepCands(b), j \in 1..Len(b.list) :
              /\ i < j
              /\ Unmatched(b, j)
              /\ After(b).list[j - 1].pos = b.list[j].pos

-----------------------------------------------------------------------------
(* C16                                                                     *)

RECURSIVE Nested(_, _, _)

\* the positions of the conditionals of the list and of the statements
\* nested in it through blocks, loops, if bodies and else blocks and, if
\* clauses is set, through the clauses of switch, type switch and select
\* statements and, if elseIf is set, through conditionals that are an else
\* branch; function literals are left out
Nested(list, clauses, elseIf) ==
    LET OfStmt(s) ==
            CASE s.kind = "BlockStmt" -> Nested(s.list, clauses, elseIf)
              [] s.kind \in {"ForStmt", "RangeStmt"} ->
                    Nested(s.body.list, clauses, elseIf)
              [] s.kind \in {"SwitchStmt", "TypeSwitchStmt", "SelectStmt"} ->
                    IF clauses
                    THEN UNION {Nested(s.body.list[i].body, clauses, elseIf) :
                                   i \in 1..Len(s.body.list)}
                    ELSE {}
              [] s.kind = "IfStmt" ->
                    Nested(s.body.list, clauses, elseIf)
                    \cup (CASE s.else.kind = "BlockStmt" ->
                                  Nested(s.else.list, clauses, elseIf)
                            [] s.else.kind = "IfStmt" /\ elseIf ->
                                  Nested(<<s.else>>, clauses, elseIf)
                            [] OTHER -> {})
              [] OTHER -> {}
    IN  {list[i].pos : i \in {j \in 1..Len(list) : list[j].kind = "IfStmt"}}
        \cup UNION {OfStmt(list[i]) : i \in 1..Len(list)}

\* the same for the walked functions of the file f
NestedInFile(f, clauses, elseIf) ==
    UNION {IF f[i].kind = "FuncDecl" /\ ~IsNil(f[i].body)
              /\ hasErrorResult(f[i].type)
           THEN Nested(f[i].body.list, clauses, elseIf) ELSE {} :
              i \in 1..Len(f)}

\* C16: after the walk, every conditional of a walked function that
\* stands, at any depth, in blocks, loops, if bodies, else branches (also
\* those that are conditionals) and the clauses of switch, type switch and
\* select statements has been visited.
C16_AllConditionalsVisited ==
    pc = "done" => NestedInFile(src, TRUE, TRUE) \subseteq Range(ifTrace)

\* C16 holds of the conditionals that stand neither in a clause nor in a
\* conditional that is an else branch, and these are all that are visited.
C16_VisitedButClausesAndElseIf ==
    pc = "done" => Range(ifTrace) = NestedInFile(src, FALSE, FALSE)

-----------------------------------------------------------------------------
(* C17                                                                     *)

\* C17: equal returns a boolean for every pair of expressions, also for
\* struct, interface and function types whose fields have no tag; it never
\* aborts.
C17_EqualReturnsBool ==
    eres \in {"none", "true", "false"}

\* equal aborts only on a pair one of whose expressions holds a field
\* without a tag.
C17_AbortsOnlyOnUntagged ==
    eres = "panic" => HasUntagged(ex) \/ HasUntagged(ey)

-----------------------------------------------------------------------------
(* C18                                                                     *)

\* the visited conditionals counted as try candidates: those rewriteAssign
\* is invoked for in rewrite mode
Candidates ==
    {site \in Visited : site.s.pos \in Range(posLists["TryCand"])}

\* two error checks of the function d whose trailing expressions equal
\* cannot compare
EqualAborts(d) ==
    \E s1, s2 \in SitesOfDecl(d) :
        /\ s1 # s2
        /\ WrapCheck(s1) /\ WrapCheck(s2)
        /\ equal(Trailing(s1.s), Trailing(s2.s)) = "panic"

\* C18: rewriteAssign is invoked only for a conditional whose candidate
\* statement satisfies isErrAssign; in the separate-statement form that
\* statement stands in the slot before the conditional, so that slot
\* exists; and the walk aborts nowhere but in equal, never in rewriteAssign
\* or in the write to the slot before.
C18_RewriteOnlyAccepted ==
    /\ \A site \in Candidates :
          /\ Cond5(site)
          /\ IsNil(site.s.init) => site.p.kind = "AssignStmt"
    /\ Range(posLists["TryCand"]) \subseteq Range(ifTrace)
    /\ pc = "panic" => EqualAborts(src[di])

\* a walk in rewrite mode has rewritten a candidate in separate-statement
\* form and one whose assignment is the initializer
C18_Witness ==
    /\ pc = "done" /\ rewrite /\ modified
    /\ \E site \in Candidates : IsNil(site.s.init)
    /\ \E site \in Candidates : ~IsNil(site.s.init)

-----------------------------------------------------------------------------
(* C19                                                                     *)

\* the order reportCounts relies on between a counter and its parent
CountersOrdered ==
    /\ counts["FuncError"] <= counts["Func"]
    /\ counts["If"] <= counts["Stmt"]
    /\ counts["IfErr"] <= counts["If"]
    /\ counts["TryCand"] <= counts["IfErr"]
    /\ counts["NonErrName"] <= counts["TryCand"]
    /\ \A k \in {"ReturnExpr", "SingleStmt", "ComplexBlock", "HasElse"} :
          counts[k] <= counts["IfErr"]
    /\ Len(posLists["TryCand"]) = counts["TryCand"]

\* within one run of the tool no counter decreases and no recorded position
\* is dropped
CountersGrow ==
    run' = run =>
        \A k \in Kinds :
            /\ counts'[k] >= counts[k]
            /\ Len(posLists'[k]) >= Len(posLists[k])
            /\ SubSeq(posLists'[k], 1, Len(posLists[k])) = posLists[k]

\* C19: after any sequence of walks, in either mode, the counters have
\* never decreased, each is at most its parent counter, each rejection
\* bucket is at most the number of error tests, and there are as many
\* recorded try candidate positions as counted try candidates.
C19_CountersOrderedAndGrowing ==
    []CountersOrdered /\ [][CountersGrow]_vars

\* two functions were walked, one of them returning an error, with a try
\* candidate and a rejected error test among their conditionals
C19_Witness ==
    /\ pc = "done" /\ Len(src) = 2
    /\ counts["Func"] = 2 /\ counts["FuncError"] >= 1
    /\ counts["TryCand"] >= 1
    /\ counts["IfErr"] > counts["TryCand"]
    /\ \E k \in {"ReturnExpr", "SingleStmt", "ComplexBlock", "HasElse"} :
          counts[k] >= 1

====
